---- MODULE Spec2Model ----
(***************************************************************************)
(* Publication scheduling and account engine of INSTA_bot.                 *)
(*                                                                         *)
(* Spec        : EnhancedInstagramBot of src/main.py -- the SQLAlchemy     *)
(*               session shared by the scheduler thread and the front-end  *)
(*               handlers, the publication queue and the accounts.         *)
(* SpecInstaBot: the pickle/in-memory Scheduler of src/insta_bot.py and    *)
(*               the lock its DataManager shares with the front-end.       *)
(* SpecSessions: get_account_client of src/main.py called by two threads,  *)
(*               with stored tokens that decrypt, are stale or are foreign.*)
(* SpecVault   : SecurityManager.encrypt / decrypt of src/main.py.         *)
(* SpecAddAccount: add_account of src/main.py called by two threads.       *)
(* SpecMfa     : the add-account conversations of both files against an    *)
(*               Instagram side that may ask for a second factor.          *)
(* SpecRetry   : the retry decorator of src/main.py around any function.   *)
(* SpecCommit  : the scheduler of src/main.py step by step, with commits   *)
(*               that may raise and leave the shared session inactive.     *)
(* SpecStartBot: the threads start_bot starts, and its shutdown.           *)
(* SpecInstaBotFair: SpecInstaBot with a scheduler thread that keeps       *)
(*               running.                                                  *)
(***************************************************************************)
EXTENDS Integers, Sequences, FiniteSets, TLC

\* ---------------------------------------------------------------- bounds
MaxPubs == 1          \* publications ever enqueued
MaxTime == 1          \* clock values 0..MaxTime
MaxMedia == 2         \* longest media_paths list
MaxRollbacks == 1     \* failed add_account calls (each one rolls the session back)
MaxVaultCalls == 3    \* SecurityManager calls recorded
MaxAttempts == 3      \* largest max_attempts a retry wrapper is given

\* ---------------------------------------------------------------- program constants
max_retries == 3                  \* BotConfig.max_retries
get_video_duration == 30          \* stub: every file probes as 30.0 seconds
VideoDurationLimits == {20, 60}   \* BotConfig.max_video_duration: default 60, or a lower setting

Handles == {"acct1", "acct2"}
ContentTypes == {"post", "story", "reel"}
MediaTypes == {"photo", "video"}
Terminal == {"published", "failed", "cancelled"}
None == -1

PubIds == 1..MaxPubs

max_attempts == 3                 \* @retry(max_attempts=3) on init_instagram_client
Callers == {"t1", "t2"}           \* threads that call get_account_client / add_account

\* one thread's add_account call: its arguments, the `existing` its query found and
\* what it returned
NoAdd ==
  [pc |-> "idle", username |-> "", password |-> "", method |-> "None",
   existing |-> FALSE, result |-> "none", error |-> ""]

\* ConversationHandler.END with user_data cleared
NoConversation ==
  [bot |-> "", state |-> "END", username |-> "", password |-> "", method |-> "None",
   reply |-> ""]

\* what the Instagram side is set to ask for
RemoteSettings == {{}, {"app", "sms"}, {"app", "sms", "whatsapp", "call", "email"}}

Passwords == {"pw1", "pw2"}
Methods == {"app", "sms", "whatsapp", "call", "email"}
NoMethod == "None"                \* verification_method = None

\* one thread's get_account_client call: where it stands, the username it was given,
\* the remote login calls it has made, whether another call for the same username
\* was in progress at the same time, the exception its except-branch logged, and
\* what it gave back to its caller
NoCall ==
  [pc |-> "idle", username |-> "", logins |-> 0, overlapped |-> FALSE,
   raised |-> FALSE, value |-> "none", error |-> ""]

\* no @retry wrapper has been entered: its arguments, the index of its for loop,
\* the calls of the wrapped function it has made and the exception of each, the
\* sleeps it has taken, what the wrapped function returned, and what the wrapper
\* gave back or raised
NoRetry ==
  [pc |-> "idle", max_attempts |-> 0, delay |-> 0, attempt |-> 0, calls |-> 0,
   raises |-> << >>, sleeps |-> << >>, returned |-> "none", result |-> "none"]

VARIABLES
  now,                 \* datetime.utcnow()
  max_video_duration,  \* self.config.max_video_duration
  acc,                 \* accounts table as the shared db_session sees it
  acc_db,              \* accounts table as committed
  pub,                 \* publications table as the shared db_session sees it
  pub_db,              \* publications table as committed
  scheduler_running,   \* self.scheduler_running
  sched_pc,            \* position of the scheduler thread
  batch,               \* `publications` selected by the current tick, not yet processed
  user_data,           \* context.user_data of the front-end conversation
  publish_calls,       \* per publication: invocations of publish_post/story/reel
  upload_calls,        \* per publication: Publisher upload calls made
  upload_ok,           \* per publication: Publisher upload calls that returned
  too_long,            \* publications rejected by the reel duration check
  cancel_reported,     \* publications queued when cancel_operation answered "cancelled"
  n_rollbacks,         \* failed add_account calls so far
  ib_accounts,         \* insta_bot.py: DataManager.accounts
  ib_post_queue,       \* insta_bot.py: DataManager.post_queue
  ib_stories_queue,    \* insta_bot.py: DataManager.stories_queue
  ib_running,          \* insta_bot.py: Scheduler.running
  ib_pc,               \* insta_bot.py: position of Scheduler.run
  ib_calls,            \* insta_bot.py: Publisher calls made per queue and item
  ib_lock,             \* insta_bot.py: holder of DataManager.lock
  gs,                  \* per calling thread: its get_account_client call
  aa,                  \* per calling thread: its add_account call
  conv,                \* the add-account conversation: state and user_data
  remote_offered,      \* 2FA methods the Instagram side asks for ({}: 2FA is off)
  remote_calls,        \* Instagram calls made by the handler that ran last
  remote_throttled,    \* the Instagram side answers logins with "please wait a few minutes"
  os_urandom,          \* the IV os.urandom hands to the next Fernet.encrypt
  vault,               \* SecurityManager calls made so far: plaintext, token, decrypted
  rt,                  \* the call of a @retry wrapper that is in progress
  db_session,          \* the shared session: "active", or "inactive" after a failed commit
  main_pc,             \* position of start_bot
  reports_pc           \* position of the weekly_reports_scheduler thread

vars == <<now, max_video_duration, acc, acc_db, pub, pub_db, scheduler_running,
          sched_pc, batch, user_data, publish_calls, upload_calls, upload_ok,
          too_long, cancel_reported, n_rollbacks,
          ib_accounts, ib_post_queue, ib_stories_queue, ib_running, ib_pc, ib_calls,
          ib_lock, gs, aa, conv, remote_offered, remote_calls,
          remote_throttled, os_urandom, vault, rt, db_session, main_pc, reports_pc>>

\* the retry wrapper, the state of the shared session and the threads of start_bot
run_vars == <<rt, db_session, main_pc, reports_pc>>

\* what the program does not decide (throttling by Instagram, the random source),
\* the record of SecurityManager calls, and run_vars
env_vars == <<remote_throttled, os_urandom, vault, run_vars>>

\* the account registry seen from its callers
reg_vars == <<gs, aa, conv, remote_offered, remote_calls, env_vars>>

ib_vars == <<ib_accounts, ib_post_queue, ib_stories_queue, ib_running, ib_pc, ib_calls,
            ib_lock>>

main_vars == <<max_video_duration, acc, acc_db, pub, pub_db, scheduler_running,
               sched_pc, batch, user_data, publish_calls, upload_calls, upload_ok,
               too_long, cancel_reported, n_rollbacks, reg_vars>>

ghosts == <<publish_calls, upload_calls, upload_ok, too_long>>

\* ---------------------------------------------------------------- tables
\* SecurityManager._get_key: PBKDF2 of the passphrase with a fixed salt
encryption_password == "default_password"
OtherPassphrase == "your_secure_password"

\* a salt drawn afresh for every derivation
_get_key_random_salt(password) == [pbkdf2 |-> password, salt |-> os_urandom]

_get_key(password) == [pbkdf2 |-> password, salt |-> "instagram_bot_salt"]

\* Fernet(key).encrypt: the token carries the time of the call and a fresh IV, and
\* the ciphertext and HMAC made with the key
Token(key, t, iv, data) == [key |-> key, time |-> t, iv |-> iv, data |-> data]

\* a string stored as it is, no Fernet token
Raw(data) == Token([pbkdf2 |-> "", salt |-> ""], None, 0, data)

NoToken == Raw("")

\* the plaintext handed back
encrypt_plain(data) == Raw(data)

\* SecurityManager.encrypt
encrypt(data) == Token(_get_key(encryption_password), now, os_urandom, data)

\* SecurityManager.decrypt: Fernet checks the HMAC with its own key and raises
\* InvalidToken when it does not match
decrypt(encrypted_data) ==
  IF encrypted_data.key = _get_key(encryption_password)
    THEN encrypted_data.data
    ELSE "InvalidToken"

\* the accounts table, by username: `rows` is the number of rows that hold the
\* username, the other fields are the columns of the row a query returns
NoAccount ==
  [exists |-> FALSE, rows |-> 0, is_active |-> FALSE, last_used |-> None,
   encrypted_password |-> NoToken, verification_method |-> NoMethod,
   posts_count |-> 0, stories_count |-> 0, reels_count |-> 0]

InstagramAccount(password, method, t) ==
  [exists |-> TRUE, rows |-> 1, is_active |-> TRUE, last_used |-> t,
   encrypted_password |-> encrypt(password), verification_method |-> method,
   posts_count |-> 0, stories_count |-> 0, reels_count |-> 0]

Publication(u, ct, mt, n, t) ==
  [account_username |-> u, content_type |-> ct, media_type |-> mt,
   n_media |-> n, publish_time |-> t, status |-> "queued",
   published_at |-> None, error_message |-> ""]

\* rows of the accounts table found in the database file at start-up
InitialAccounts ==
  { [h \in Handles |-> IF h = "acct1" THEN InstagramAccount("pw1", NoMethod, None)
                                        ELSE other] :
      other \in {NoAccount,
                 [InstagramAccount("pw1", NoMethod, None) EXCEPT !.is_active = FALSE]} }

IbInit ==
  /\ ib_accounts \in {[h \in Handles |->
                          [exists |-> h = "acct1", last_used |-> None,
                           verification_method |-> NoMethod]]}
  /\ ib_post_queue = << >>
  /\ ib_stories_queue = << >>
  /\ ib_running = FALSE
  /\ ib_pc = "stopped"
  /\ ib_calls = [q \in {"post", "story"} |-> [i \in PubIds |-> 0]]
  /\ ib_lock = "free"

\* empty publications table, scheduler thread not started
QueueInit ==
  /\ pub = << >>
  /\ pub_db = << >>
  /\ scheduler_running = FALSE
  /\ sched_pc = "start"
  /\ batch = << >>
  /\ user_data = {}
  /\ publish_calls = [p \in PubIds |-> 0]
  /\ upload_calls = [p \in PubIds |-> 0]
  /\ upload_ok = [p \in PubIds |-> 0]
  /\ too_long = {}
  /\ cancel_reported = {}
  /\ n_rollbacks = 0

MainInit ==
  /\ max_video_duration \in VideoDurationLimits
  /\ acc \in InitialAccounts
  /\ acc_db = acc
  /\ QueueInit

\* no get_account_client call has been made
CallersInit ==
  /\ gs = [c \in Callers |-> NoCall]
  /\ aa = [c \in Callers |-> NoAdd]
  /\ conv = NoConversation
  /\ remote_calls = << >>

\* no wrapper entered, the session of __init__, start_bot not called
RunInit ==
  /\ rt = NoRetry
  /\ db_session = "active"
  /\ main_pc = "init"
  /\ reports_pc = "unstarted"

\* no throttling, one IV, no SecurityManager call recorded
EnvInit ==
  /\ remote_throttled = FALSE
  /\ os_urandom = 0
  /\ vault = << >>
  /\ RunInit

\* the Instagram side asks for no second factor
RegInit ==
  /\ CallersInit
  /\ remote_offered = {}
  /\ EnvInit

Init ==
  /\ now = 0
  /\ RegInit
  /\ MainInit
  /\ IbInit

\* ---------------------------------------------------------------- clock
Tick ==
  /\ now < MaxTime
  /\ now' = now + 1
  /\ UNCHANGED <<max_video_duration, acc, acc_db, pub, pub_db, scheduler_running,
                 sched_pc, batch, user_data, ghosts, cancel_reported,
                 n_rollbacks, ib_vars, reg_vars>>


\* ---------------------------------------------------------------- session
\* db_session.commit(): everything the session holds becomes the committed state.
\* db_session.rollback(): the session forgets what it has not committed.
Queued(i) == pub[i].status = "queued"

QueuedIds == {i \in 1..Len(pub) : Queued(i)}

\* ---------------------------------------------------------------- front-end
\* start_add_content: needs an active account, stores the key content_type of the draft
start_add_content ==
  /\ \E h \in Handles : acc[h].exists /\ acc[h].is_active
  /\ user_data' = user_data \cup {"content_type"}
  /\ UNCHANGED <<now, max_video_duration, acc, acc_db, pub, pub_db, scheduler_running,
                 sched_pc, batch, ghosts, cancel_reported, n_rollbacks, ib_vars, reg_vars>>

\* add_to_queue: no validation of its arguments; session.add + commit
add_to_queue(ct, mt, n, t, u) ==
  /\ Len(pub) < MaxPubs
  /\ pub' = Append(pub, Publication(u, ct, mt, n, IF t = None THEN now ELSE t))
  /\ pub_db' = pub'
  /\ acc_db' = acc
  /\ UNCHANGED <<now, max_video_duration, acc, scheduler_running, sched_pc, batch,
                 user_data, ghosts, cancel_reported, n_rollbacks, ib_vars, reg_vars>>

\* cancel_operation: the only cancel handler; clears the conversation and answers
\* "operation cancelled"; it reads and writes no Publication
cancel_operation ==
  /\ user_data' = {}
  /\ cancel_reported' = cancel_reported \cup QueuedIds
  /\ UNCHANGED <<now, max_video_duration, acc, acc_db, pub, pub_db, scheduler_running,
                 sched_pc, batch, ghosts, n_rollbacks, ib_vars, reg_vars>>

\* the row replaced by a new one whether or not it exists
AccountWritten_fresh(u, existing, password, method) ==
  [acc EXCEPT ![u] = InstagramAccount(password, method, now)]

\* add_account after the login: `existing` is updated in place, or else a new row
\* is added to the session
AccountWritten(u, existing, password, method) ==
  [acc EXCEPT ![u] =
     IF existing
       THEN [@ EXCEPT !.encrypted_password = encrypt(password),
                      !.verification_method = method,
                      !.last_used = now,
                      !.is_active = TRUE]
       ELSE [InstagramAccount(password, method, now) EXCEPT !.rows = acc[u].rows + 1]]

\* add_account, remote login accepted: insert or update the row, commit
add_account_ok(u, password, method) ==
  /\ acc' = AccountWritten(u, acc[u].exists, password, method)
  /\ acc_db' = acc'
  /\ pub_db' = pub
  /\ UNCHANGED <<now, max_video_duration, pub, scheduler_running, sched_pc, batch,
                 user_data, ghosts, cancel_reported, n_rollbacks, ib_vars, reg_vars>>

\* add_account, remote login raised: rollback of the shared session
add_account_failed(u) ==
  /\ n_rollbacks < MaxRollbacks
  /\ n_rollbacks' = n_rollbacks + 1
  /\ acc' = acc_db
  /\ pub' = pub_db
  /\ UNCHANGED <<now, max_video_duration, acc_db, pub_db, scheduler_running, sched_pc,
                 batch, user_data, ghosts, cancel_reported, ib_vars, reg_vars>>

\* ---------------------------------------------------------------- scheduler thread
Ids(n) == [i \in 1..n |-> i]

\* the query without its filter
DuePublications_all == Ids(Len(pub))

\* query: status == 'queued' and publish_time <= current_time
DuePublications == SelectSeq(Ids(Len(pub)), LAMBDA i : Queued(i) /\ pub[i].publish_time <= now)

scheduler_start ==
  /\ sched_pc = "start"
  /\ scheduler_running' = TRUE
  /\ sched_pc' = "poll"
  /\ UNCHANGED <<now, max_video_duration, acc, acc_db, pub, pub_db, batch, user_data,
                 ghosts, cancel_reported, n_rollbacks, ib_vars, reg_vars>>

scheduler_select ==
  /\ sched_pc = "poll"
  /\ scheduler_running
  /\ batch' = DuePublications
  /\ sched_pc' = "loop"
  /\ UNCHANGED <<now, max_video_duration, acc, acc_db, pub, pub_db, scheduler_running,
                 user_data, ghosts, cancel_reported, n_rollbacks, ib_vars, reg_vars>>

\* end of the for loop: sleep(scheduler_interval), next iteration of the while loop
scheduler_sleep ==
  /\ sched_pc = "loop"
  /\ batch = << >>
  /\ sched_pc' = "poll"
  /\ UNCHANGED <<now, max_video_duration, acc, acc_db, pub, pub_db, scheduler_running,
                 batch, user_data, ghosts, cancel_reported, n_rollbacks, ib_vars, reg_vars>>


\* ---------------------------------------------------------------- publish_post / publish_story / publish_reel
\* get_account_client finds a row only with username = u and is_active = True
HasActiveAccount(u) == acc[u].exists /\ acc[u].is_active

\* the message recorded, the status left as it was
Failed_message_only(p, msg) == [pub EXCEPT ![p].error_message = msg]

\* except-branches: status = 'failed', error_message = str(e)
Failed(p, msg) == [pub EXCEPT ![p].status = "failed", ![p].error_message = msg]

\* success path: status = 'published', published_at = utcnow()
Published(p) == [pub EXCEPT ![p].status = "published", ![p].published_at = now]

\* a story of which only the first media path is uploaded
PlannedUploads_first(r) == 1

\* number of Publisher calls a publication needs: one photo/video/album/clip upload,
\* or one story upload per media path
PlannedUploads(r) == IF r.content_type = "story" THEN r.n_media ELSE 1

\* get_account_client after a successful login: account.last_used = utcnow()
Touched(u) == [acc EXCEPT ![u].last_used = now]

\* posts_count / stories_count / reels_count += 1 in the publish function the
\* scheduler dispatches to for this content type
CounterBumped(a, ct) ==
  CASE ct = "post"  -> [a EXCEPT !.posts_count = @ + 1]
    [] ct = "story" -> [a EXCEPT !.stories_count = @ + 1]
    [] ct = "reel"  -> [a EXCEPT !.reels_count = @ + 1]

\* the duration check left out
reel_too_long_never == FALSE

\* publish_reel: duration > self.config.max_video_duration raises ValidationError
reel_too_long == get_video_duration > max_video_duration

\* publish_reel: media_paths[0] of an empty list raises IndexError
reel_no_media(r) == r.n_media = 0

Processing(p) == sched_pc = "loop" /\ batch # << >> /\ p = Head(batch)

Called(p) ==
  /\ publish_calls' = [publish_calls EXCEPT ![p] = @ + 1]
  /\ sched_pc' = "notify"

\* get_account_client raises AccountNotFoundError; the except-branch records it and commits
publish_account_not_found ==
  \E p \in PubIds :
    /\ Processing(p)
    /\ ~HasActiveAccount(pub[p].account_username)
    /\ Called(p)
    /\ pub' = Failed(p, "Account not found")
    /\ pub_db' = pub'
    /\ acc_db' = acc
    /\ UNCHANGED <<now, max_video_duration, acc, scheduler_running, batch, user_data,
                   upload_calls, upload_ok, too_long, cancel_reported,
                   n_rollbacks, ib_vars, reg_vars>>

\* decrypt or init_instagram_client raised (after its retries): get_account_client
\* returns None; status and error_message are set, nothing is committed
publish_no_client ==
  \E p \in PubIds :
    /\ Processing(p)
    /\ HasActiveAccount(pub[p].account_username)
    /\ Called(p)
    /\ pub' = Failed(p, "Failed to get Instagram client")
    /\ UNCHANGED <<now, max_video_duration, acc, acc_db, pub_db, scheduler_running,
                   batch, user_data, upload_calls, upload_ok, too_long, cancel_reported, n_rollbacks, ib_vars, reg_vars>>

\* publish_reel with a client: IndexError or ValidationError before any upload
publish_reel_rejected ==
  \E p \in PubIds :
    /\ Processing(p)
    /\ HasActiveAccount(pub[p].account_username)
    /\ pub[p].content_type = "reel"
    /\ reel_no_media(pub[p]) \/ reel_too_long
    /\ Called(p)
    /\ pub' = Failed(p, IF reel_no_media(pub[p]) THEN "list index out of range"
                        ELSE "Video too long")
    /\ too_long' = IF reel_no_media(pub[p]) THEN too_long ELSE too_long \cup {p}
    /\ acc' = Touched(pub[p].account_username)
    /\ pub_db' = pub'
    /\ acc_db' = acc'
    /\ UNCHANGED <<now, max_video_duration, scheduler_running, batch, user_data,
                   upload_calls, upload_ok, cancel_reported, n_rollbacks, ib_vars, reg_vars>>

CanUpload(p) ==
  /\ Processing(p)
  /\ HasActiveAccount(pub[p].account_username)
  /\ pub[p].content_type = "reel" => ~reel_no_media(pub[p]) /\ ~reel_too_long

\* the first k Publisher calls return, call k+1 raises: the except-branch sets
\* failed and commits; the retry wrapper sees a normal return of False
publish_upload_failed ==
  \E p \in PubIds :
    /\ CanUpload(p)
    /\ \E k \in 0..(PlannedUploads(pub[p]) - 1) :
         /\ upload_calls' = [upload_calls EXCEPT ![p] = @ + k + 1]
         /\ upload_ok' = [upload_ok EXCEPT ![p] = @ + k]
    /\ Called(p)
    /\ pub' = Failed(p, "upload error")
    /\ acc' = Touched(pub[p].account_username)
    /\ pub_db' = pub'
    /\ acc_db' = acc'
    /\ UNCHANGED <<now, max_video_duration, scheduler_running, batch, user_data,
                   too_long, cancel_reported, n_rollbacks, ib_vars, reg_vars>>

\* every planned Publisher call returns: published, published_at, counter, commit
publish_succeeded ==
  \E p \in PubIds :
    /\ CanUpload(p)
    /\ upload_calls' = [upload_calls EXCEPT ![p] = @ + PlannedUploads(pub[p])]
    /\ upload_ok' = [upload_ok EXCEPT ![p] = @ + PlannedUploads(pub[p])]
    /\ Called(p)
    /\ pub' = Published(p)
    /\ acc' = [Touched(pub[p].account_username) EXCEPT
                 ![pub[p].account_username] = CounterBumped(@, pub[p].content_type)]
    /\ pub_db' = pub'
    /\ acc_db' = acc'
    /\ UNCHANGED <<now, max_video_duration, scheduler_running, batch, user_data,
                   too_long, cancel_reported, n_rollbacks, ib_vars, reg_vars>>

\* send_publish_notification returns
scheduler_notified ==
  /\ sched_pc = "notify"
  /\ batch' = Tail(batch)
  /\ sched_pc' = "loop"
  /\ UNCHANGED <<now, max_video_duration, acc, acc_db, pub, pub_db, scheduler_running,
                 user_data, ghosts, cancel_reported, n_rollbacks, ib_vars, reg_vars>>

\* send_publish_notification raises (its UserSettings query): the scheduler's
\* except-branch sets pub.status = 'failed', error_message = str(e) and commits
scheduler_notify_raised ==
  /\ sched_pc = "notify"
  /\ pub' = Failed(Head(batch), "notification error")
  /\ pub_db' = pub'
  /\ acc_db' = acc
  /\ batch' = Tail(batch)
  /\ sched_pc' = "loop"
  /\ UNCHANGED <<now, max_video_duration, acc, scheduler_running, user_data, ghosts,
                 cancel_reported, n_rollbacks, ib_vars, reg_vars>>

\* ---------------------------------------------------------------- specification
Next ==
  \/ Tick
  \/ start_add_content
  \/ \E ct \in ContentTypes, mt \in MediaTypes, n \in 0..MaxMedia,
        t \in {None} \cup (0..MaxTime), u \in Handles : add_to_queue(ct, mt, n, t, u)
  \/ cancel_operation
  \/ \E u \in Handles : add_account_ok(u, "pw1", NoMethod)
  \/ \E u \in Handles : add_account_failed(u)
  \/ scheduler_start
  \/ scheduler_select
  \/ scheduler_sleep
  \/ publish_account_not_found
  \/ publish_no_client
  \/ publish_reel_rejected
  \/ publish_upload_failed
  \/ publish_succeeded
  \/ scheduler_notified
  \/ scheduler_notify_raised

Spec == Init /\ [][Next]_vars


\* ================================================================ src/insta_bot.py
\* DataManager keeps accounts and both queues in memory behind one Lock; Scheduler.run
\* calls check_post_queue and check_stories_queue, each holding that lock throughout.

IbItem(n, t, u) ==
  [content |-> n, publish_time |-> t, status |-> "queued", target_account |-> u,
   published_at |-> None]

\* the entry DataManager.add_account stores (the client is not part of the model)
IbAccount(method) ==
  [exists |-> TRUE, last_used |-> now, verification_method |-> method]

\* `with self.lock:` is entered only while nobody holds DataManager.lock
IbLockFree == ib_lock = "free"

\* DataManager.add_account, login accepted: the entry is created or overwritten
\* under the lock
ib_add_account(u, method) ==
  /\ IbLockFree
  /\ ib_accounts' = [ib_accounts EXCEPT ![u] = IbAccount(method)]
  /\ UNCHANGED <<now, main_vars, ib_post_queue, ib_stories_queue, ib_running, ib_pc,
                 ib_calls, ib_lock>>

\* DataManager.add_to_queue: appends to the queue named by queue_type; n is the number
\* of photos in content (one path, or a list of paths)
ib_add_to_queue(queue_type, n, t, u) ==
  /\ IbLockFree
  /\ queue_type = "post" => Len(ib_post_queue) < MaxPubs
  /\ queue_type = "story" => Len(ib_stories_queue) < MaxPubs
  /\ ib_post_queue' = IF queue_type = "post"
                        THEN Append(ib_post_queue, IbItem(n, IF t = None THEN now ELSE t, u))
                        ELSE ib_post_queue
  /\ ib_stories_queue' = IF queue_type = "story"
                           THEN Append(ib_stories_queue, IbItem(n, IF t = None THEN now ELSE t, u))
                           ELSE ib_stories_queue
  /\ UNCHANGED <<now, main_vars, ib_accounts, ib_running, ib_pc, ib_calls, ib_lock>>

\* Scheduler.start
ib_start ==
  /\ ~ib_running
  /\ ib_running' = TRUE
  /\ ib_pc' = "posts"
  /\ UNCHANGED <<now, main_vars, ib_accounts, ib_post_queue, ib_stories_queue, ib_calls,
                 ib_lock>>

IbDue(item) == item.status = "queued" /\ item.publish_time <= now

\* the body of the try: reached only for a due item whose target is in accounts
IbAttempted(item) == IbDue(item) /\ ib_accounts[item.target_account].exists

\* InstagramManager.publish_post / publish_story: one photo upload per path
IbPlanned(item) == item.content

\* one item after the loop body, k of its uploads having returned
IbProcessed(item, k) ==
  IF ~IbAttempted(item) THEN item
  ELSE IF k = IbPlanned(item)
         THEN [item EXCEPT !.status = "published", !.published_at = now]
         ELSE [item EXCEPT !.status = "failed"]

IbOutcomes(queue) ==
  { ks \in [1..Len(queue) -> 0..MaxMedia] :
      \A i \in 1..Len(queue) :
        IF IbAttempted(queue[i]) THEN ks[i] <= IbPlanned(queue[i]) ELSE ks[i] = 0 }

IbCallsAfter(calls, queue, ks) ==
  [i \in PubIds |->
     IF i <= Len(queue) /\ IbAttempted(queue[i])
       THEN calls[i] + (IF ks[i] < IbPlanned(queue[i]) THEN ks[i] + 1 ELSE ks[i])
       ELSE calls[i]]

\* account['last_used'] = now for every item published in this pass
IbAccountsAfter(queue, ks) ==
  [h \in Handles |->
     IF \E i \in 1..Len(queue) :
          /\ IbAttempted(queue[i]) /\ queue[i].target_account = h
          /\ ks[i] = IbPlanned(queue[i])
       THEN [ib_accounts[h] EXCEPT !.last_used = now]
       ELSE ib_accounts[h]]

\* check_post_queue / check_stories_queue: `with self.data_manager.lock:` around the
\* whole for loop
ib_lock_acquire ==
  /\ ib_running
  /\ ib_pc \in {"posts", "stories"}
  /\ IbLockFree
  /\ ib_lock' = "scheduler"
  /\ ib_pc' = IF ib_pc = "posts" THEN "posts_locked" ELSE "stories_locked"
  /\ UNCHANGED <<now, main_vars, ib_accounts, ib_post_queue, ib_stories_queue, ib_running,
                 ib_calls>>

\* the for loop with its uploads, then the end of the with block
ib_check_post_queue ==
  /\ ib_running
  /\ ib_pc = "posts_locked"
  /\ ib_lock' = "free"
  /\ \E ks \in IbOutcomes(ib_post_queue) :
       /\ ib_post_queue' = [i \in 1..Len(ib_post_queue) |-> IbProcessed(ib_post_queue[i], ks[i])]
       /\ ib_calls' = [ib_calls EXCEPT !["post"] = IbCallsAfter(@, ib_post_queue, ks)]
       /\ ib_accounts' = IbAccountsAfter(ib_post_queue, ks)
  /\ ib_pc' = "stories"
  /\ UNCHANGED <<now, main_vars, ib_stories_queue, ib_running>>

ib_check_stories_queue ==
  /\ ib_running
  /\ ib_pc = "stories_locked"
  /\ ib_lock' = "free"
  /\ \E ks \in IbOutcomes(ib_stories_queue) :
       /\ ib_stories_queue' = [i \in 1..Len(ib_stories_queue) |->
                                 IbProcessed(ib_stories_queue[i], ks[i])]
       /\ ib_calls' = [ib_calls EXCEPT !["story"] = IbCallsAfter(@, ib_stories_queue, ks)]
       /\ ib_accounts' = IbAccountsAfter(ib_stories_queue, ks)
  /\ ib_pc' = "posts"
  /\ UNCHANGED <<now, main_vars, ib_post_queue, ib_running>>

IbNext ==
  \/ Tick
  \/ \E u \in Handles : ib_add_account(u, NoMethod)
  \/ \E q \in {"post", "story"}, n \in 0..MaxMedia, t \in {None} \cup (0..MaxTime),
        u \in Handles : ib_add_to_queue(q, n, t, u)
  \/ ib_start
  \/ ib_lock_acquire
  \/ ib_check_post_queue
  \/ ib_check_stories_queue

\* the accounts and settings of main.py play no part in insta_bot.py
IbSpecInit == Init /\ max_video_duration = 60 /\ ~acc["acct2"].exists

SpecInstaBot == IbSpecInit /\ [][IbNext]_vars

\* Scheduler.run is a thread of its own: `while self.running` with a sleep between
\* passes, so every step of it that stays possible is taken in the end
IbSchedulerRuns ==
  /\ WF_vars(ib_start)
  /\ WF_vars(ib_lock_acquire)
  /\ WF_vars(ib_check_post_queue)
  /\ WF_vars(ib_check_stories_queue)

SpecInstaBotFair == IbSpecInit /\ [][IbNext]_vars /\ IbSchedulerRuns


\* ================================================================ SecurityManager
\* encrypt and decrypt called one after the other; every call is recorded with its
\* plaintext and its token
IVs == {0, 1}

ForeignTokens == {NoToken, Token(_get_key(OtherPassphrase), 0, 0, "pw1")}

\* self.security.encrypt(data); os.urandom gives another 16 bytes next time
security_encrypt(data) ==
  /\ Len(vault) < MaxVaultCalls
  /\ vault' = Append(vault, [op |-> "encrypt", data |-> data, token |-> encrypt(data)])
  /\ os_urandom' \in IVs
  /\ UNCHANGED <<now, max_video_duration, acc, acc_db, pub, pub_db, scheduler_running,
                 sched_pc, batch, user_data, ghosts, cancel_reported, n_rollbacks, ib_vars,
                 gs, aa, conv, remote_offered, remote_calls, remote_throttled, run_vars>>

\* self.security.decrypt(encrypted_data)
security_decrypt(encrypted_data) ==
  /\ Len(vault) < MaxVaultCalls
  /\ vault' = Append(vault, [op |-> "decrypt", data |-> decrypt(encrypted_data),
                             token |-> encrypted_data])
  /\ UNCHANGED <<now, max_video_duration, acc, acc_db, pub, pub_db, scheduler_running,
                 sched_pc, batch, user_data, ghosts, cancel_reported, n_rollbacks, ib_vars,
                 gs, aa, conv, remote_offered, remote_calls, remote_throttled, os_urandom,
                 run_vars>>

\* tokens a caller can hand to decrypt: what encrypt returned earlier, or a string
\* from elsewhere
KnownTokens == {vault[i].token : i \in 1..Len(vault)} \cup ForeignTokens

VaultNext ==
  \/ Tick
  \/ \E data \in Passwords : security_encrypt(data)
  \/ \E encrypted_data \in KnownTokens : security_decrypt(encrypted_data)

SpecVault == Init /\ [][VaultNext]_vars

\* ================================================================ Instagram
\* The Instagram side: the account's password is GoodPassword; when remote_offered is
\* not empty a login needs the code GoodCode as well; while remote_throttled it
\* answers every login with PleaseWaitFewMinutes.
GoodPassword == "pw1"
NoCode == << >>
GoodCode == <<"1", "2", "3", "4", "5", "6">>

\* Client.login(username, password[, verification_code]) as the Instagram side answers it
RemoteLogin(password, code) ==
  IF remote_throttled THEN "PleaseWaitFewMinutes"
  ELSE IF password # GoodPassword THEN "BadPassword"
  ELSE IF remote_offered = {} THEN "ok"
  ELSE IF code = GoodCode THEN "ok"
  ELSE "TwoFactorRequired"

\* ================================================================ get_account_client
\* main.py: no lock is taken (account_lock is created and never acquired) and no
\* client is kept between calls; every call that finds the row logs in afresh.

\* the query: filter_by(username=username, is_active=True).first(); no row raises
\* AccountNotFoundError
get_account_client_query(c, u) ==
  /\ gs[c].pc # "login"
  /\ LET busy == \E d \in Callers \ {c} : gs[d].pc = "login" /\ gs[d].username = u
     IN gs' = [d \in Callers |->
                 IF d = c
                   THEN IF HasActiveAccount(u)
                          THEN [NoCall EXCEPT !.pc = "login", !.username = u,
                                              !.overlapped = busy]
                          ELSE [NoCall EXCEPT !.pc = "done", !.username = u,
                                              !.raised = TRUE,
                                              !.value = "AccountNotFoundError"]
                   ELSE IF gs[d].pc = "login" /\ gs[d].username = u /\ HasActiveAccount(u)
                          THEN [gs[d] EXCEPT !.overlapped = TRUE]
                          ELSE gs[d]]
  /\ UNCHANGED <<now, max_video_duration, acc, acc_db, pub, pub_db, scheduler_running,
                 sched_pc, batch, user_data, ghosts, cancel_reported, n_rollbacks,
                 ib_vars, aa, conv, remote_offered, env_vars, remote_calls>>

\* answers a login attempt can get: what the Instagram side says to the password,
\* or a connection that fails
ConnectionError == "ConnectionError"

LoginAnswers(password) == {RemoteLogin(password, NoCode), ConnectionError}

\* @retry(max_attempts=3): every exception is caught and the call made again until
\* the last attempt, whose exception is raised; the number of calls made when the
\* last answer is `answer`
retry(answer) == IF answer = "ok" THEN 1..max_attempts ELSE {max_attempts}

\* the stored token does not decrypt: InvalidToken is caught by the except-branch
\* before any login, None is returned
get_account_client_decrypt_failed(c) ==
  /\ gs[c].pc = "login"
  /\ decrypt(acc[gs[c].username].encrypted_password) = "InvalidToken"
  /\ gs' = [gs EXCEPT ![c] = [@ EXCEPT !.pc = "done", !.value = "None",
                                       !.error = "InvalidToken"]]
  /\ UNCHANGED <<now, max_video_duration, acc, acc_db, pub, pub_db, scheduler_running,
                 sched_pc, batch, user_data, ghosts, cancel_reported, n_rollbacks, ib_vars,
                 aa, conv, remote_offered, remote_calls, env_vars>>

\* decrypt, then init_instagram_client under @retry.  Accepted: last_used = utcnow(),
\* commit, return cl.  Every attempt raised: the exception is logged and None is
\* returned.
get_account_client_login(c) ==
  /\ gs[c].pc = "login"
  /\ LET password == decrypt(acc[gs[c].username].encrypted_password)
     IN /\ password # "InvalidToken"
        /\ \E answer \in LoginAnswers(password) : \E a \in retry(answer) :
             /\ gs' = [gs EXCEPT ![c] =
                         [@ EXCEPT !.pc = "done", !.logins = a,
                                   !.value = IF answer = "ok" THEN "client" ELSE "None",
                                   !.error = IF answer = "ok" THEN "" ELSE answer]]
             /\ IF answer = "ok"
                  THEN /\ acc' = Touched(gs[c].username)
                       /\ acc_db' = acc'
                       /\ pub_db' = pub
                  ELSE UNCHANGED <<acc, acc_db, pub_db>>
  /\ UNCHANGED <<now, max_video_duration, pub, scheduler_running, sched_pc, batch,
                 user_data, ghosts, cancel_reported, n_rollbacks, ib_vars, aa, conv,
                 remote_offered, remote_calls, env_vars>>

\* rows of the accounts table found in the database file at start-up: the token of
\* acct1 holds the password Instagram accepts, a password changed since, or was
\* written under another ENCRYPTION_PASSWORD
SessionAccounts ==
  { [h \in Handles |->
       IF h = "acct1"
         THEN [InstagramAccount("pw1", NoMethod, None) EXCEPT !.encrypted_password = token]
         ELSE other] :
      token \in {Token(_get_key(encryption_password), 0, 0, "pw1"),
                 Token(_get_key(encryption_password), 0, 0, "pw2"),
                 Token(_get_key(OtherPassphrase), 0, 0, "pw1")},
      other \in {NoAccount,
                 [InstagramAccount("pw1", NoMethod, None) EXCEPT !.is_active = FALSE]} }

SessionsInit ==
  /\ now = 0
  /\ RegInit
  /\ max_video_duration \in VideoDurationLimits
  /\ acc \in SessionAccounts
  /\ acc_db = acc
  /\ QueueInit
  /\ IbInit

SessionsNext ==
  \/ Tick
  \/ \E u \in Handles : add_account_ok(u, "pw1", NoMethod)
  \/ \E c \in Callers, u \in Handles : get_account_client_query(c, u)
  \/ \E c \in Callers : get_account_client_decrypt_failed(c)
  \/ \E c \in Callers : get_account_client_login(c)

SpecSessions == SessionsInit /\ [][SessionsNext]_vars

\* ---------------------------------------------------------------- add_account, step by step
\* the login raised and the except-branch stored the row all the same
add_account_login_failed_stored(c, u, password, method) ==
  /\ aa[c].pc # "write"
  /\ aa' = [aa EXCEPT ![c] = [NoAdd EXCEPT !.pc = "done", !.username = u,
                                           !.result = "False", !.error = "login"]]
  /\ acc' = AccountWritten(u, acc[u].exists, password, method)
  /\ acc_db' = acc'
  /\ UNCHANGED <<now, max_video_duration, pub, pub_db, scheduler_running, sched_pc, batch,
                 user_data, ghosts, cancel_reported, n_rollbacks, ib_vars, gs, conv, remote_offered, env_vars, remote_calls>>

\* init_instagram_client raised after its retries: except-branch, db_session.rollback(),
\* return False
add_account_login_failed(c, u, password, method) ==
  /\ aa[c].pc # "write"
  /\ aa' = [aa EXCEPT ![c] = [NoAdd EXCEPT !.pc = "done", !.username = u,
                                           !.result = "False", !.error = "login"]]
  /\ acc' = acc_db
  /\ pub' = pub_db
  /\ UNCHANGED <<now, max_video_duration, acc_db, pub_db, scheduler_running, sched_pc,
                 batch, user_data, ghosts, cancel_reported, n_rollbacks, ib_vars, gs, conv, remote_offered, env_vars, remote_calls>>

\* init_instagram_client returned: encrypt, then the query for `existing`
add_account_login_ok(c, u, password, method) ==
  /\ aa[c].pc # "write"
  /\ aa' = [aa EXCEPT ![c] = [NoAdd EXCEPT !.pc = "write", !.username = u,
                                           !.password = password, !.method = method,
                                           !.existing = acc[u].exists]]
  /\ UNCHANGED <<now, max_video_duration, acc, acc_db, pub, pub_db, scheduler_running,
                 sched_pc, batch, user_data, ghosts, cancel_reported, n_rollbacks,
                 ib_vars, gs, conv, remote_offered, env_vars, remote_calls>>

\* the unique constraint left out
UniqueViolated_never(table) == FALSE

\* username = Column(String(50), unique=True): the flush of a second row with the
\* same username raises IntegrityError
UniqueViolated(table) == \E h \in Handles : table[h].rows > 1

\* update `existing` or db_session.add(account), then commit; a commit that raises
\* goes to the except-branch: rollback, return False
add_account_write(c) ==
  /\ aa[c].pc = "write"
  /\ LET t == AccountWritten(aa[c].username, aa[c].existing, aa[c].password, aa[c].method)
     IN IF UniqueViolated(t)
          THEN /\ aa' = [aa EXCEPT ![c] = [NoAdd EXCEPT !.pc = "done",
                                                        !.username = aa[c].username,
                                                        !.existing = aa[c].existing,
                                                        !.result = "False",
                                                        !.error = "IntegrityError"]]
               /\ acc' = acc_db
               /\ pub' = pub_db
               /\ UNCHANGED <<acc_db, pub_db>>
          ELSE /\ aa' = [aa EXCEPT ![c] = [NoAdd EXCEPT !.pc = "done",
                                                        !.username = aa[c].username,
                                                        !.existing = aa[c].existing,
                                                        !.result = "True"]]
               /\ acc' = t
               /\ acc_db' = t
               /\ pub_db' = pub
               /\ UNCHANGED pub
  /\ UNCHANGED <<now, max_video_duration, scheduler_running, sched_pc, batch, user_data,
                 ghosts, cancel_reported, n_rollbacks, ib_vars, gs, conv, remote_offered, env_vars, remote_calls>>

\* rows of the accounts table found in the database file at start-up: acct1 active,
\* acct2 absent or soft-deleted, both with publications counted earlier
StoredAccounts ==
  { [h \in Handles |->
       IF h = "acct1" THEN [InstagramAccount("pw1", NoMethod, None) EXCEPT !.posts_count = 1]
       ELSE other] :
      other \in {NoAccount,
                 [InstagramAccount("pw1", "sms", None) EXCEPT !.is_active = FALSE,
                                                             !.posts_count = 2,
                                                             !.reels_count = 1]} }

AddAccountInit ==
  /\ now = 0
  /\ RegInit
  /\ max_video_duration \in VideoDurationLimits
  /\ acc \in StoredAccounts
  /\ acc_db = acc
  /\ QueueInit
  /\ IbInit

AddAccountNext ==
  \/ Tick
  \/ \E c \in Callers, u \in Handles, password \in Passwords, method \in {"app", NoMethod} :
       \/ add_account_login_failed(c, u, password, method)
       \/ add_account_login_ok(c, u, password, method)
  \/ \E c \in Callers : add_account_write(c)

SpecAddAccount == AddAccountInit /\ [][AddAccountNext]_vars


\* ================================================================ adding an account with 2FA

\* characters by what str.isdecimal / re \d and str.isdigit say about them
AsciiDigits == {"0", "1", "2", "3", "4", "5", "6", "7", "8", "9"}
UnicodeDecimal == AsciiDigits \cup {"ARABIC-INDIC DIGIT ONE"}
UnicodeDigit == UnicodeDecimal \cup {"SUPERSCRIPT TWO"}
Whitespace == {" ", "\n"}

\* message texts sent while the bot waits for the code
CodeTexts ==
  { GoodCode,
    <<"0", "0", "0", "0", "0", "0">>,
    <<"1", "2", "3", "4", "5">>,
    <<"1", "2", "3", "4", "5", "6", "7">>,
    <<"1", "2", "3", "4", "5", "a">>,
    [i \in 1..6 |-> "ARABIC-INDIC DIGIT ONE"],
    [i \in 1..6 |-> "SUPERSCRIPT TWO"] }

\* str.strip()
RECURSIVE lstrip(_)
lstrip(text) ==
  IF text # << >> /\ Head(text) \in Whitespace THEN lstrip(Tail(text)) ELSE text

RECURSIVE rstrip(_)
rstrip(text) ==
  IF text # << >> /\ text[Len(text)] \in Whitespace
    THEN rstrip(SubSeq(text, 1, Len(text) - 1))
    ELSE text

strip(text) == rstrip(lstrip(text))

\* validate_input('2fa_code'): re.match(r'^\d{6}$', text); $ also matches before a
\* final newline
re_match_2fa_code(text) ==
  \/ Len(text) = 6 /\ \A i \in 1..6 : text[i] \in UnicodeDecimal
  \/ Len(text) = 7 /\ (\A i \in 1..6 : text[i] \in UnicodeDecimal) /\ text[7] = "\n"

\* input_2fa_code: code.isdigit() and len(code) == 6
isdigit_len6(code) ==
  Len(code) = 6 /\ \A i \in 1..Len(code) : code[i] \in UnicodeDigit

Login(password, code) == [op |-> "login", password |-> password, code |-> code]

RECURSIVE Repeat(_, _)
Repeat(calls, n) == IF n = 0 THEN << >> ELSE calls \o Repeat(calls, n - 1)

\* @retry(max_attempts=3): an attempt that raises is made max_attempts times
Retried(attempt) ==
  IF attempt.ok THEN attempt
  ELSE [calls |-> Repeat(attempt.calls, max_attempts), ok |-> FALSE]

\* main.py init_instagram_client: with a code and a method, email passes the code to
\* login; every other method logs in with the password alone and then calls
\* challenge_code_handler(username, password)
init_instagram_client(password, code, method) ==
  Retried(
    IF code # NoCode /\ method # NoMethod
      THEN IF method = "email"
             THEN [calls |-> <<Login(password, code)>>,
                   ok |-> RemoteLogin(password, code) = "ok"]
             ELSE IF RemoteLogin(password, NoCode) = "ok"
                    THEN [calls |-> <<Login(password, NoCode),
                                      [op |-> "challenge_code_handler",
                                       password |-> password, code |-> NoCode]>>,
                          ok |-> TRUE]
                    ELSE [calls |-> <<Login(password, NoCode)>>, ok |-> FALSE]
      ELSE [calls |-> <<Login(password, NoCode)>>,
            ok |-> RemoteLogin(password, NoCode) = "ok"])

\* get_2fa_methods (both files): a password login; TwoFactorRequired gives the
\* methods it carries, success and every other exception give []
get_2fa_methods(password) ==
  IF RemoteLogin(password, NoCode) = "TwoFactorRequired" THEN remote_offered ELSE {}

\* insta_bot.py InstagramManager.init_client: app passes the code to login; sms,
\* whatsapp and call log in with the password alone and then call
\* handle_two_factor_login(code); any other method raises ValueError
init_client(password, code, method) ==
  IF code # NoCode /\ method # NoMethod
    THEN IF method = "app"
           THEN [calls |-> <<Login(password, code)>>,
                 ok |-> RemoteLogin(password, code) = "ok"]
           ELSE IF method \in {"sms", "whatsapp", "call"}
                  THEN IF RemoteLogin(password, NoCode) = "ok"
                         THEN [calls |-> <<Login(password, NoCode),
                                           [op |-> "handle_two_factor_login",
                                            password |-> "", code |-> code]>>,
                               ok |-> TRUE]
                         ELSE [calls |-> <<Login(password, NoCode)>>, ok |-> FALSE]
                  ELSE [calls |-> << >>, ok |-> FALSE]
    ELSE [calls |-> <<Login(password, NoCode)>>,
          ok |-> RemoteLogin(password, NoCode) = "ok"]


\* ---------------------------------------------------------------- the conversation, main.py
queue_vars == <<max_video_duration, scheduler_running, sched_pc, batch, user_data,
                publish_calls, upload_calls, upload_ok, too_long, cancel_reported,
                n_rollbacks>>

ib_queue_vars == <<ib_post_queue, ib_stories_queue, ib_running, ib_pc, ib_calls, ib_lock>>

\* add_account called by a handler: the row is written and committed if the login
\* succeeded, the session is rolled back if it raised
AccountAdded(ok, u, password, method) ==
  IF ok
    THEN /\ acc' = AccountWritten(u, acc[u].exists, password, method)
         /\ acc_db' = acc'
         /\ pub_db' = pub
         /\ UNCHANGED pub
    ELSE /\ acc' = acc_db
         /\ pub' = pub_db
         /\ UNCHANGED <<acc_db, pub_db>>

Ended(ok) == [NoConversation EXCEPT !.reply = IF ok THEN "added" ELSE "not added"]

start_add_account ==
  /\ conv.state = "END"
  /\ conv' = [NoConversation EXCEPT !.bot = "main.py", !.state = "INPUT_USERNAME"]
  /\ remote_calls' = << >>
  /\ UNCHANGED <<now, queue_vars, acc, acc_db, pub, pub_db, ib_vars, gs, aa, remote_offered, env_vars>>

\* an active account of that name ends the handler; otherwise the name is kept
handle_username_input(u) ==
  /\ conv.bot = "main.py" /\ conv.state = "INPUT_USERNAME"
  /\ conv' = IF HasActiveAccount(u)
               THEN [conv EXCEPT !.reply = "already added"]
               ELSE [conv EXCEPT !.username = u, !.state = "INPUT_PASSWORD",
                                 !.reply = "enter password"]
  /\ remote_calls' = << >>
  /\ UNCHANGED <<now, queue_vars, acc, acc_db, pub, pub_db, ib_vars, gs, aa, remote_offered, env_vars>>

\* get_2fa_methods; no methods: add_account(username, password) and the end of the
\* conversation; methods: show_2fa_methods
handle_password_input(password) ==
  /\ conv.bot = "main.py" /\ conv.state = "INPUT_PASSWORD"
  /\ IF get_2fa_methods(password) = {}
       THEN LET r == init_instagram_client(password, NoCode, NoMethod)
            IN /\ remote_calls' = <<Login(password, NoCode)>> \o r.calls
               /\ AccountAdded(r.ok, conv.username, password, NoMethod)
               /\ conv' = Ended(r.ok)
       ELSE /\ remote_calls' = <<Login(password, NoCode)>>
            /\ conv' = [conv EXCEPT !.password = password, !.state = "SELECT_2FA_METHOD",
                                    !.reply = "choose method"]
            /\ UNCHANGED <<acc, acc_db, pub, pub_db>>
  /\ UNCHANGED <<now, queue_vars, ib_vars, gs, aa, remote_offered, env_vars>>

\* one button per offered method that has a name in method_names
handle_2fa_method_selection(method) ==
  /\ conv.bot = "main.py" /\ conv.state = "SELECT_2FA_METHOD"
  /\ method \in remote_offered \cap Methods
  /\ conv' = [conv EXCEPT !.method = method, !.state = "INPUT_2FA_CODE",
                          !.reply = "enter code"]
  /\ remote_calls' = << >>
  /\ UNCHANGED <<now, queue_vars, acc, acc_db, pub, pub_db, ib_vars, gs, aa, remote_offered, env_vars>>

\* @validate_input('2fa_code'), then add_account(username, password, code, method)
\* and user_data.clear() whatever it returned
handle_2fa_code_input(text) ==
  /\ conv.bot = "main.py" /\ conv.state = "INPUT_2FA_CODE"
  /\ IF ~re_match_2fa_code(text)
       THEN /\ conv' = [conv EXCEPT !.reply = "validation error"]
            /\ remote_calls' = << >>
            /\ UNCHANGED <<acc, acc_db, pub, pub_db>>
       ELSE LET r == init_instagram_client(conv.password, strip(text), conv.method)
            IN /\ remote_calls' = r.calls
               /\ AccountAdded(r.ok, conv.username, conv.password, conv.method)
               /\ conv' = Ended(r.ok)
  /\ UNCHANGED <<now, queue_vars, ib_vars, gs, aa, remote_offered, env_vars>>

\* ---------------------------------------------------------------- the conversation, insta_bot.py
add_account_start ==
  /\ conv.state = "END"
  /\ conv' = [NoConversation EXCEPT !.bot = "insta_bot.py", !.state = "INPUT_USERNAME"]
  /\ remote_calls' = << >>
  /\ UNCHANGED <<now, queue_vars, acc, acc_db, pub, pub_db, ib_vars, gs, aa, remote_offered, env_vars>>

input_username(u) ==
  /\ conv.bot = "insta_bot.py" /\ conv.state = "INPUT_USERNAME"
  /\ conv' = [conv EXCEPT !.username = u, !.state = "INPUT_PASSWORD",
                          !.reply = "enter password"]
  /\ remote_calls' = << >>
  /\ UNCHANGED <<now, queue_vars, acc, acc_db, pub, pub_db, ib_vars, gs, aa, remote_offered, env_vars>>

\* DataManager.add_account called by a handler: the entry is stored if the login
\* succeeded, nothing is touched if it raised
IbAccountAdded(ok, u, method) ==
  ib_accounts' = IF ok THEN [ib_accounts EXCEPT ![u] = IbAccount(method)] ELSE ib_accounts

\* buttons exist for app, sms, whatsapp and call
IbButtons == {"app", "sms", "whatsapp", "call"}

input_password(password) ==
  /\ conv.bot = "insta_bot.py" /\ conv.state = "INPUT_PASSWORD"
  /\ IbLockFree
  /\ IF get_2fa_methods(password) = {}
       THEN LET r == init_client(password, NoCode, NoMethod)
            IN /\ remote_calls' = <<Login(password, NoCode)>> \o r.calls
               /\ IbAccountAdded(r.ok, conv.username, NoMethod)
               /\ conv' = Ended(r.ok)
       ELSE /\ remote_calls' = <<Login(password, NoCode)>>
            /\ conv' = [conv EXCEPT !.password = password, !.state = "SELECT_2FA_METHOD",
                                    !.reply = "choose method"]
            /\ UNCHANGED ib_accounts
  /\ UNCHANGED <<now, queue_vars, acc, acc_db, pub, pub_db, ib_queue_vars, gs, aa,
                 remote_offered, env_vars>>

select_2fa_method(method) ==
  /\ conv.bot = "insta_bot.py" /\ conv.state = "SELECT_2FA_METHOD"
  /\ method \in remote_offered \cap IbButtons
  /\ conv' = [conv EXCEPT !.method = method, !.state = "INPUT_2FA_CODE",
                          !.reply = "enter code"]
  /\ remote_calls' = << >>
  /\ UNCHANGED <<now, queue_vars, acc, acc_db, pub, pub_db, ib_vars, gs, aa, remote_offered, env_vars>>

\* code = text.strip(); not code.isdigit() or len(code) != 6 asks again; otherwise
\* add_account(username, password, code, method): True ends the conversation, False
\* asks for the code again
input_2fa_code(text) ==
  /\ conv.bot = "insta_bot.py" /\ conv.state = "INPUT_2FA_CODE"
  /\ IbLockFree
  /\ IF ~isdigit_len6(strip(text))
       THEN /\ conv' = [conv EXCEPT !.reply = "validation error"]
            /\ remote_calls' = << >>
            /\ UNCHANGED ib_accounts
       ELSE LET r == init_client(conv.password, strip(text), conv.method)
            IN /\ remote_calls' = r.calls
               /\ IbAccountAdded(r.ok, conv.username, conv.method)
               /\ conv' = IF r.ok THEN Ended(TRUE) ELSE [conv EXCEPT !.reply = "not added"]
  /\ UNCHANGED <<now, queue_vars, acc, acc_db, pub, pub_db, ib_queue_vars, gs, aa,
                 remote_offered, env_vars>>

MfaInit ==
  /\ now = 0
  /\ CallersInit
  /\ remote_offered \in RemoteSettings
  /\ remote_throttled \in BOOLEAN
  /\ os_urandom = 0
  /\ vault = << >>
  /\ RunInit
  /\ MainInit
  /\ IbInit

MfaNext ==
  \/ Tick
  \/ start_add_account
  \/ \E u \in Handles : handle_username_input(u)
  \/ \E password \in Passwords : handle_password_input(password)
  \/ \E method \in Methods : handle_2fa_method_selection(method)
  \/ \E text \in CodeTexts : handle_2fa_code_input(text)
  \/ add_account_start
  \/ \E u \in Handles : input_username(u)
  \/ \E password \in Passwords : input_password(password)
  \/ \E method \in Methods : select_2fa_method(method)
  \/ \E text \in CodeTexts : input_2fa_code(text)

SpecMfa == MfaInit /\ [][MfaNext]_vars


\* ================================================================ src/main.py: retry
\* what a wrapped function hands back, and what it raises
Returns == {"True", "False"}
Exceptions == {"ConnectionError", "ValidationError"}
Delays == {1, 2}

\* all but rt
retry_frame == <<now, queue_vars, acc, acc_db, pub, pub_db, ib_vars, gs, aa, conv,
                 remote_offered, remote_calls, remote_throttled, os_urandom, vault,
                 db_session, main_pc, reports_pc>>

\* the same wait before every attempt
Backoff_constant(delay, attempt) == delay

\* sleep(delay * (2 ** attempt))
Backoff(delay, attempt) == delay * (2 ^ attempt)

\* wrapper entered: `for attempt in range(max_attempts)`; over an empty range the
\* loop is skipped and the wrapper returns None
RetryEntered(n, d) ==
  IF n = 0
    THEN [NoRetry EXCEPT !.pc = "returned", !.max_attempts = n, !.delay = d,
                         !.result = "None"]
    ELSE [NoRetry EXCEPT !.pc = "call", !.max_attempts = n, !.delay = d]

\* `return func(*args, **kwargs)`: the wrapped function returned `value`
RetryReturned(r, value) ==
  [r EXCEPT !.calls = @ + 1, !.returned = value, !.pc = "returned", !.result = value]

\* `except Exception`: the last attempt re-raises, every other one sleeps and goes
\* on to the next iteration
RetryRaised(r, e) ==
  IF r.attempt = r.max_attempts - 1
    THEN [r EXCEPT !.calls = @ + 1, !.raises = Append(@, e), !.pc = "raised",
                   !.result = e]
    ELSE [r EXCEPT !.calls = @ + 1, !.raises = Append(@, e),
                   !.sleeps = Append(@, Backoff(r.delay, r.attempt)),
                   !.attempt = @ + 1]

retry_enter(n, d) ==
  /\ rt.pc = "idle"
  /\ rt' = RetryEntered(n, d)
  /\ UNCHANGED retry_frame

retry_func_returns(value) ==
  /\ rt.pc = "call"
  /\ rt' = RetryReturned(rt, value)
  /\ UNCHANGED retry_frame

retry_func_raises(e) ==
  /\ rt.pc = "call"
  /\ rt' = RetryRaised(rt, e)
  /\ UNCHANGED retry_frame

\* the caller has the result or the exception
retry_leave ==
  /\ rt.pc \in {"returned", "raised"}
  /\ rt' = NoRetry
  /\ UNCHANGED retry_frame

RetryNext ==
  \/ \E n \in 0..MaxAttempts, d \in Delays : retry_enter(n, d)
  \/ \E value \in Returns : retry_func_returns(value)
  \/ \E e \in Exceptions : retry_func_raises(e)
  \/ retry_leave

SpecRetry == Init /\ [][RetryNext]_vars


\* ================================================================ src/main.py: commits that fail
\* db_session.commit() may raise (the database file is locked or cannot be written).
\* Nothing is written then, and the SQLAlchemy session refuses every further query
\* and commit until rollback() is called on it; rollback() makes the session forget
\* what it has not committed.
CommitOutcomes == IF db_session = "active" THEN {TRUE, FALSE} ELSE {FALSE}

\* content_type is a free string column: what the front-end offers, and one more
QueueContentTypes == {"post", "igtv"}

\* never changed by the scheduler or by add_account
commit_frame == <<now, max_video_duration, scheduler_running, user_data, too_long,
                  cancel_reported, ib_vars, gs, aa, conv, remote_offered, remote_calls,
                  remote_throttled, os_urandom, vault, main_pc, reports_pc>>

\* the publication the for loop of the scheduler is at
Cur == Head(batch)

\* add_to_queue on a session that takes the commit
add_to_queue_committed(ct, u) ==
  /\ db_session = "active"
  /\ add_to_queue(ct, "photo", 1, None, u)

\* the query of the scheduler on a session that answers (on an inactive session it
\* raises, and the outer except-branch sleeps and polls again)
scheduler_query ==
  /\ db_session = "active"
  /\ scheduler_select

\* any add_account call that raises, on an inactive session every one: rollback()
add_account_rollback ==
  /\ n_rollbacks < MaxRollbacks
  /\ n_rollbacks' = n_rollbacks + 1
  /\ acc' = acc_db
  /\ pub' = pub_db
  /\ db_session' = "active"
  /\ UNCHANGED <<acc_db, pub_db, sched_pc, batch, rt, publish_calls, upload_calls,
                 upload_ok, commit_frame>>

\* the for loop reaches a publication whose content_type is none of post, story and
\* reel: no publish function is called, the notification is next
scheduler_dispatch_none ==
  /\ Processing(Cur)
  /\ pub[Cur].content_type \notin ContentTypes
  /\ sched_pc' = "notify"
  /\ UNCHANGED <<acc, acc_db, pub, pub_db, batch, rt, db_session, publish_calls,
                 upload_calls, upload_ok, n_rollbacks, commit_frame>>

\* self.publish_post(pub): the wrapper of @retry(max_attempts=3) is entered
scheduler_dispatch ==
  /\ Processing(Cur)
  /\ pub[Cur].content_type \in ContentTypes
  /\ rt' = RetryEntered(max_attempts, 1)
  /\ sched_pc' = "call"
  /\ UNCHANGED <<acc, acc_db, pub, pub_db, batch, db_session, publish_calls,
                 upload_calls, upload_ok, n_rollbacks, commit_frame>>

\* except-branch of publish_post: status = 'failed', error_message, commit. When the
\* commit returns the function returns False; when it raises, the exception leaves
\* the function and the wrapper sleeps and calls again, or raises on
PublishExcept(msg, committed, accounts) ==
  /\ pub' = Failed(Cur, msg)
  /\ acc' = accounts
  /\ IF committed
       THEN /\ pub_db' = pub'
            /\ acc_db' = acc'
            /\ db_session' = db_session
            /\ rt' = RetryReturned(rt, "False")
            /\ sched_pc' = "notify"
       ELSE /\ UNCHANGED <<pub_db, acc_db>>
            /\ db_session' = "inactive"
            /\ rt' = RetryRaised(rt, "commit error")
            /\ sched_pc' = IF rt'.pc = "raised" THEN "except" ELSE "call"

\* publish_post: get_account_client raises -- its query on an inactive session, or
\* AccountNotFoundError
publish_client_raised ==
  /\ sched_pc = "call"
  /\ db_session = "inactive" \/ ~HasActiveAccount(pub[Cur].account_username)
  /\ publish_calls' = [publish_calls EXCEPT ![Cur] = @ + 1]
  /\ \E committed \in CommitOutcomes :
       PublishExcept(IF db_session = "inactive" THEN "session inactive"
                     ELSE "Account not found", committed, acc)
  /\ UNCHANGED <<batch, upload_calls, upload_ok, n_rollbacks, commit_frame>>

\* publish_post: get_account_client returns None -- decrypt or login raised, or the
\* commit of last_used raised; status and error_message are set, nothing is
\* committed, the function returns False
publish_client_none ==
  /\ sched_pc = "call"
  /\ db_session = "active"
  /\ HasActiveAccount(pub[Cur].account_username)
  /\ publish_calls' = [publish_calls EXCEPT ![Cur] = @ + 1]
  /\ pub' = Failed(Cur, "Failed to get Instagram client")
  /\ \E logged_in \in BOOLEAN :
       /\ acc' = IF logged_in THEN Touched(pub[Cur].account_username) ELSE acc
       /\ db_session' = IF logged_in THEN "inactive" ELSE db_session
  /\ rt' = RetryReturned(rt, "False")
  /\ sched_pc' = "notify"
  /\ UNCHANGED <<acc_db, pub_db, batch, upload_calls, upload_ok, n_rollbacks,
                 commit_frame>>

\* publish_post: get_account_client logs in, sets last_used and commits
publish_client ==
  /\ sched_pc = "call"
  /\ db_session = "active"
  /\ HasActiveAccount(pub[Cur].account_username)
  /\ publish_calls' = [publish_calls EXCEPT ![Cur] = @ + 1]
  /\ acc' = Touched(pub[Cur].account_username)
  /\ acc_db' = acc'
  /\ pub_db' = pub
  /\ sched_pc' = "upload"
  /\ UNCHANGED <<pub, batch, rt, db_session, upload_calls, upload_ok, n_rollbacks,
                 commit_frame>>

\* publish_post: cl.photo_upload raises; the except-branch follows
publish_upload_raised ==
  /\ sched_pc = "upload"
  /\ upload_calls' = [upload_calls EXCEPT ![Cur] = @ + 1]
  /\ \E committed \in CommitOutcomes : PublishExcept("upload error", committed, acc)
  /\ UNCHANGED <<batch, publish_calls, upload_ok, n_rollbacks, commit_frame>>

\* publish_post: cl.photo_upload returns; status = 'published', published_at,
\* posts_count += 1 when the account row is found, commit, return True
publish_uploaded ==
  /\ sched_pc = "upload"
  /\ db_session = "active"
  /\ upload_calls' = [upload_calls EXCEPT ![Cur] = @ + 1]
  /\ upload_ok' = [upload_ok EXCEPT ![Cur] = @ + 1]
  /\ pub' = Published(Cur)
  /\ acc' = [acc EXCEPT ![pub[Cur].account_username] =
               IF @.exists THEN CounterBumped(@, pub[Cur].content_type) ELSE @]
  /\ pub_db' = pub'
  /\ acc_db' = acc'
  /\ rt' = RetryReturned(rt, "True")
  /\ sched_pc' = "notify"
  /\ UNCHANGED <<batch, db_session, publish_calls, n_rollbacks, commit_frame>>

\* publish_post: cl.photo_upload returns and the commit after it raises; the
\* except-branch sets failed, and its own commit raises as well
publish_uploaded_commit_raised ==
  /\ sched_pc = "upload"
  /\ db_session = "active"
  /\ upload_calls' = [upload_calls EXCEPT ![Cur] = @ + 1]
  /\ upload_ok' = [upload_ok EXCEPT ![Cur] = @ + 1]
  /\ PublishExcept("commit error", FALSE,
                   [acc EXCEPT ![pub[Cur].account_username] =
                      IF @.exists THEN CounterBumped(@, pub[Cur].content_type) ELSE @])
  /\ UNCHANGED <<batch, publish_calls, n_rollbacks, commit_frame>>

\* send_publish_notification: its UserSettings query raises on an inactive session
scheduler_notify_query_raised ==
  /\ sched_pc = "notify"
  /\ db_session = "inactive"
  /\ sched_pc' = "except"
  /\ UNCHANGED <<acc, acc_db, pub, pub_db, batch, rt, db_session, publish_calls,
                 upload_calls, upload_ok, n_rollbacks, commit_frame>>

\* send_publish_notification returns
scheduler_notify_sent ==
  /\ db_session = "active"
  /\ scheduler_notified

\* except-branch of the for loop: status = 'failed', error_message, commit; when this
\* commit raises too, the outer except-branch logs, sleeps 30 seconds and the while
\* loop starts over: the rest of the batch is dropped
scheduler_except ==
  /\ sched_pc = "except"
  /\ pub' = Failed(Cur, "commit error")
  /\ \E committed \in CommitOutcomes :
       IF committed
         THEN /\ pub_db' = pub'
              /\ acc_db' = acc
              /\ batch' = Tail(batch)
              /\ sched_pc' = "loop"
              /\ db_session' = db_session
         ELSE /\ UNCHANGED <<pub_db, acc_db>>
              /\ batch' = << >>
              /\ sched_pc' = "poll"
              /\ db_session' = "inactive"
  /\ UNCHANGED <<acc, rt, publish_calls, upload_calls, upload_ok, n_rollbacks,
                 commit_frame>>

CommitNext ==
  \/ Tick
  \/ \E ct \in QueueContentTypes, u \in Handles : add_to_queue_committed(ct, u)
  \/ add_account_rollback
  \/ scheduler_start
  \/ scheduler_query
  \/ scheduler_sleep
  \/ scheduler_dispatch_none
  \/ scheduler_dispatch
  \/ publish_client_raised
  \/ publish_client_none
  \/ publish_client
  \/ publish_upload_raised
  \/ publish_uploaded
  \/ publish_uploaded_commit_raised
  \/ scheduler_notify_query_raised
  \/ scheduler_notify_sent
  \/ scheduler_except

SpecCommit == Init /\ [][CommitNext]_vars


\* ================================================================ src/main.py: start_bot
\* all but scheduler_running, sched_pc, batch, main_pc, reports_pc and now
threads_frame == <<max_video_duration, acc, acc_db, pub, pub_db, user_data, ghosts,
                   cancel_reported, n_rollbacks, ib_vars, gs, aa, conv, remote_offered,
                   remote_calls, remote_throttled, os_urandom, vault, rt, db_session>>

\* Thread(target=self.scheduler).start()
start_bot_scheduler_thread ==
  /\ main_pc = "init"
  /\ main_pc' = "scheduler_started"
  /\ UNCHANGED <<now, scheduler_running, sched_pc, batch, reports_pc, threads_frame>>

\* Thread(target=self.weekly_reports_scheduler).start(), then polling and idle()
start_bot_reports_thread ==
  /\ main_pc = "scheduler_started"
  /\ main_pc' = "idle"
  /\ reports_pc' = "test"
  /\ UNCHANGED <<now, scheduler_running, sched_pc, batch, threads_frame>>

\* idle() returns or raises: `finally: self.scheduler_running = False`
start_bot_shutdown ==
  /\ main_pc = "idle"
  /\ main_pc' = "shutdown"
  /\ scheduler_running' = FALSE
  /\ UNCHANGED <<now, sched_pc, batch, reports_pc, threads_frame>>

\* the scheduler thread gets to run: self.scheduler_running = True
scheduler_thread_start ==
  /\ main_pc # "init"
  /\ scheduler_start

\* `while self.scheduler_running` finds the flag False: scheduler returns
scheduler_thread_return ==
  /\ sched_pc = "poll"
  /\ ~scheduler_running
  /\ sched_pc' = "returned"
  /\ UNCHANGED <<now, scheduler_running, batch, main_pc, reports_pc, threads_frame>>

\* weekly_reports_scheduler: `while self.scheduler_running`; with the flag True the
\* body runs (reports are sent on Monday at 9) and the thread sleeps an hour, with
\* the flag False the function returns
weekly_reports_scheduler_test ==
  /\ reports_pc = "test"
  /\ reports_pc' = IF scheduler_running THEN "sleep" ELSE "returned"
  /\ UNCHANGED <<now, scheduler_running, sched_pc, batch, main_pc, threads_frame>>

\* sleep(3600) is over
weekly_reports_scheduler_wake ==
  /\ reports_pc = "sleep"
  /\ reports_pc' = "test"
  /\ UNCHANGED <<now, scheduler_running, sched_pc, batch, main_pc, threads_frame>>

StartBotNext ==
  \/ Tick
  \/ start_bot_scheduler_thread
  \/ start_bot_reports_thread
  \/ start_bot_shutdown
  \/ scheduler_thread_start
  \/ scheduler_select
  \/ scheduler_sleep
  \/ scheduler_thread_return
  \/ weekly_reports_scheduler_test
  \/ weekly_reports_scheduler_wake

SpecStartBot == Init /\ [][StartBotNext]_vars


\* ================================================================ claims
Pubs == 1..Len(pub)

\* every Publisher call made for p has returned, and there was at least one
Uploaded(p) == upload_calls[p] > 0 /\ upload_ok[p] = upload_calls[p]

\* C1: a Publication's status changes only along queued->published, queued->failed,
\* queued->cancelled (queued->queued being no change); a published, failed or
\* cancelled status never changes again.
C1_StatusEdges ==
  [][\A p \in Pubs :
       pub'[p].status # pub[p].status =>
         pub[p].status = "queued" /\ pub'[p].status \in Terminal]_vars

\* C2: a Publication is published only if at least one Publisher upload call for it
\* returned successfully, whatever add_to_queue was given.
C2_PublishedOnlyAfterUpload ==
  \A p \in Pubs : pub[p].status = "published" => upload_ok[p] >= 1

\* C3: with max_retries = 3 and a Publisher that always raises, a due Publication
\* is failed only after exactly 3 Publisher attempts.
C3_FailedAfterThreeAttempts ==
  \A p \in Pubs :
    (pub[p].status = "failed" /\ pub[p].error_message = "upload error" /\ upload_ok[p] = 0)
      => upload_calls[p] = max_retries

\* C4: after a Publisher attempt fails while fewer than max_retries attempts have
\* been made, the Publication's status is still queued.
C4_QueuedWhileRetriesRemain ==
  [][\A p \in Pubs :
       (/\ upload_calls'[p] - upload_calls[p] > upload_ok'[p] - upload_ok[p]
        /\ publish_calls'[p] < max_retries)
         => pub'[p].status = "queued"]_vars

\* C5: a Publication that Cancel reported as cancelled is never uploaded, published
\* or failed afterwards.
C5_CancelledNeverProcessed ==
  \A p \in cancel_reported :
    upload_calls[p] = 0 /\ pub[p].status \notin {"published", "failed"}

\* C6: Cancel on a queued Publication sets its status to cancelled.
C6_CancelSetsCancelled ==
  [][(cancel_operation /\ QueuedIds # {}) =>
       \E p \in QueuedIds : pub'[p].status = "cancelled"]_vars

\* C7: when the Scheduler processes a due Publication whose target_account is
\* unknown, the Publication is failed in that same tick.
C7_UnknownAccountFails ==
  [][ib_check_post_queue =>
       \A i \in 1..Len(ib_post_queue) :
         (IbDue(ib_post_queue[i]) /\ ~ib_accounts[ib_post_queue[i].target_account].exists)
           => ib_post_queue'[i].status = "failed"]_vars

CounterOf(a, ct) ==
  CASE ct = "post"  -> a.posts_count
    [] ct = "story" -> a.stories_count
    [] ct = "reel"  -> a.reels_count

\* C8: when the Publisher upload for a Publication succeeds, its status is
\* published, published_at is set, the matching account counter has been
\* incremented and the account's last_used is set.
C8_PublishedAfterUpload ==
  \A p \in Pubs :
    Uploaded(p) =>
      /\ pub[p].status = "published"
      /\ pub[p].published_at # None
      /\ CounterOf(acc[pub[p].account_username], pub[p].content_type) >= 1
      /\ acc[pub[p].account_username].last_used # None

\* a reel whose probed duration exceeds the configured maximum is never uploaded;
\* once the duration check has rejected it, it is failed and committed as failed
C9_RejectedReel ==
  \A p \in Pubs :
    /\ (/\ pub[p].content_type = "reel"
        /\ pub[p].n_media >= 1
        /\ get_video_duration > max_video_duration)
         => upload_calls[p] = 0 /\ pub[p].status # "published"
    /\ p \in too_long => pub[p].status = "failed" /\ pub_db[p].status = "failed"

\* publish_reel is never invoked again for a reel the duration check rejected
C9_ProcessedOnce ==
  [][\A p \in too_long : publish_calls'[p] = publish_calls[p]]_vars

\* C9: both parts together -- a reel over the duration limit is failed by the
\* duration check without any Publisher call and is processed exactly once.
C9_LongReelFailsOnce == []C9_RejectedReel /\ C9_ProcessedOnce

C9_Witness ==
  \E p \in Pubs : p \in too_long /\ pub[p].status = "failed" /\ publish_calls[p] >= 1
                  /\ sched_pc = "poll"

\* C10: an exception raised by the notification step never changes the status
\* already recorded for the Publication.
C10_NotifyKeepsStatus ==
  [][scheduler_notify_raised =>
       pub'[Head(batch)].status = pub[Head(batch)].status]_vars

\* C11: an error raised while one due item is processed is recorded on that item --
\* status failed with the error message stored on it -- and never leaves the
\* scheduler; the other due items of the tick are still processed and the loop
\* keeps running.
C11_ErrorRecordedOnItem ==
  \A q \in {ib_post_queue, ib_stories_queue} :
    \A i \in 1..Len(q) :
      q[i].status = "failed" =>
        /\ "error_message" \in DOMAIN q[i]
        /\ q[i].error_message # ""
        /\ ib_running

\* C12: two get_account_client calls for the same handle that run at the same time
\* make exactly one remote login call between them: the calls are serialized and
\* the second reuses the session of the first.
C12_OneLoginForConcurrentCalls ==
  \A c, d \in Callers :
    (/\ c # d
     /\ gs[c].pc = "done" /\ gs[d].pc = "done"
     /\ gs[c].username = gs[d].username
     /\ gs[c].overlapped /\ gs[d].overlapped
     /\ gs[c].value = "client" /\ gs[d].value = "client")
      => gs[c].logins + gs[d].logins = 1

\* the remote side rejected every login of the call
LoginRejected(c) == gs[c].pc = "done" /\ gs[c].logins > 0 /\ gs[c].value # "client"

\* C17: get_account_client fails with AccountNotFound when the handle is unknown or
\* inactive, and fails with a distinct LoginFailed error when the account is active
\* but the remote login rejects the decrypted secret; in neither case does the
\* caller get a session.
C17_DistinctFailures ==
  \A c \in Callers :
    /\ (gs[c].pc = "done" /\ gs[c].logins = 0 /\ gs[c].error # "InvalidToken")
         => gs[c].raised /\ gs[c].value = "AccountNotFoundError"
    /\ LoginRejected(c)
         => gs[c].raised /\ gs[c].value \notin {"AccountNotFoundError", "client"}

\* the scheduler is inside the upload of a due item of account a
IbRemoteCallFor(a) ==
  \/ ib_pc = "posts_locked" /\ \E i \in 1..Len(ib_post_queue) :
       IbAttempted(ib_post_queue[i]) /\ ib_post_queue[i].target_account = a
  \/ ib_pc = "stories_locked" /\ \E i \in 1..Len(ib_stories_queue) :
       IbAttempted(ib_stories_queue[i]) /\ ib_stories_queue[i].target_account = a

\* C13: no lock is held across a remote call -- while the scheduler is inside a
\* remote publish for account a, add_to_queue or add_account for another account b
\* can start and complete without waiting for that call.
C13_NoLockAcrossRemoteCall ==
  \A a, b \in Handles : (a # b /\ IbRemoteCallFor(a)) => IbLockFree

\* C14: when the remote login of add_account fails, add_account returns False and
\* the stored accounts are exactly as before the call: no row is created and no
\* column of an existing row changes.
C14_FailedLoginLeavesStore ==
  [][\A c \in Callers :
       (aa'[c] # aa[c] /\ aa'[c].pc = "done" /\ aa'[c].error = "login")
         => /\ aa'[c].result = "False"
            /\ acc_db' = acc_db
            /\ acc' = acc_db]_vars

C14_Witness ==
  \E c \in Callers :
    /\ aa[c].pc = "done" /\ aa[c].error = "login" /\ aa[c].result = "False"
    /\ aa[c].username = "acct2"
    /\ acc_db \in StoredAccounts

\* C15: after any sequence and any interleaving of add_account calls, successful or
\* failed, a previously soft-deleted handle included, the accounts table holds at
\* most one row per handle.
C15_OneRecordPerHandle ==
  \A h \in Handles : acc_db[h].rows <= 1 /\ acc[h].rows <= 1

\* the soft-deleted acct2 has been added again and is the only row of its handle
C15_Witness ==
  /\ acc_db["acct2"].is_active
  /\ acc_db["acct2"].posts_count = 2
  /\ acc_db["acct2"].rows = 1
  /\ \A c \in Callers : aa[c].pc = "done" /\ aa[c].username = "acct2"

\* C16: a successful add_account for a handle that already has a row, active or
\* soft-deleted, updates that row in place: encrypted password and
\* verification_method are overwritten, last_used is reset, is_active becomes true,
\* and posts_count, stories_count and reels_count keep their values.
C16_UpdateInPlace ==
  [][\A c \in Callers :
       (/\ aa[c].pc = "write" /\ aa'[c].pc = "done" /\ aa'[c].result = "True"
        /\ acc_db[aa[c].username].exists)
         => acc_db'[aa[c].username] =
              [acc_db[aa[c].username] EXCEPT
                 !.encrypted_password = encrypt(aa[c].password),
                 !.verification_method = aa[c].method,
                 !.last_used = now,
                 !.is_active = TRUE]]_vars

C16_Witness ==
  \E c \in Callers :
    /\ aa[c].pc = "done" /\ aa[c].result = "True" /\ aa[c].existing
    /\ aa[c].username = "acct2"
    /\ acc_db["acct2"].is_active
    /\ decrypt(acc_db["acct2"].encrypted_password) = "pw2"
    /\ acc_db["acct2"].verification_method = "app"
    /\ acc_db["acct2"].last_used = 1
    /\ acc_db["acct2"].posts_count = 2 /\ acc_db["acct2"].reels_count = 1

\* C18: against an Instagram side that answers a password-only login with
\* TwoFactorRequired offering app and sms and accepts the right 6-digit code, the
\* add-account conversation -- probe, choose app, send the code -- ends with the
\* account stored and its verification_method app.
C18_MfaRoundTrip ==
  [][(/\ conv.state = "INPUT_2FA_CODE"
      /\ conv.method = "app"
      /\ conv.password = GoodPassword
      /\ remote_offered = {"app", "sms"})
       => /\ handle_2fa_code_input(GoodCode)
               => /\ conv'.reply = "added"
                  /\ acc_db'[conv.username].exists
                  /\ acc_db'[conv.username].is_active
                  /\ acc_db'[conv.username].verification_method = "app"
          /\ input_2fa_code(GoodCode)
               => /\ conv'.reply = "added"
                  /\ ib_accounts'[conv.username].exists
                  /\ ib_accounts'[conv.username].verification_method = "app"]_vars

SixDecimalDigits(text) == Len(text) = 6 /\ \A i \in 1..Len(text) : text[i] \in UnicodeDecimal

\* C19: while the code is awaited, a text that is not exactly six decimal digits is
\* turned down with a validation error before any remote call: no login and no
\* challenge call is made for it, no account is stored, and the conversation stays
\* at the code prompt.
C19_BadCodeRejectedLocally ==
  [][\A text \in CodeTexts :
       (/\ ~SixDecimalDigits(text)
        /\ handle_2fa_code_input(text) \/ input_2fa_code(text))
         => /\ remote_calls' = << >>
            /\ conv'.reply = "validation error"
            /\ conv'.state = "INPUT_2FA_CODE"
            /\ acc_db' = acc_db
            /\ ib_accounts' = ib_accounts]_vars

\* C20: for every method the code the user entered reaches the Instagram side: with
\* email it is passed in the login call itself; with app, sms, whatsapp and call the
\* password login is made first and the code follows in a challenge call.
C20_CodeReachesRemote ==
  [][\A text \in CodeTexts :
       (/\ SixDecimalDigits(text)
        /\ handle_2fa_code_input(text) \/ input_2fa_code(text))
         => IF conv.method = "email"
              THEN /\ remote_calls' # << >>
                   /\ remote_calls'[1] = Login(conv.password, text)
              ELSE /\ Len(remote_calls') >= 2
                   /\ remote_calls'[1] = Login(conv.password, NoCode)
                   /\ remote_calls'[2].op # "login"
                   /\ remote_calls'[2].code = text]_vars

\* ---------------------------------------------------------------- C21
\* the handler that took the password made remote calls, the first of them the probe
ProbeAnswered ==
  /\ conv.state = "INPUT_PASSWORD"
  /\ conv' # conv
  /\ remote_calls' # << >>

ProbeAnswer == RemoteLogin(remote_calls'[1].password, NoCode)

\* C21: the password-only probe has three outcomes: accepted, the account is added
\* with no MFA step; second factor demanded, the flow waits for the choice of a
\* method; rejected, the flow fails on the probe's answer and add_account, the
\* handling of "no MFA needed", is not called.
C21_ProbeOutcomes ==
  [][ProbeAnswered =>
       /\ ProbeAnswer = "ok" => conv'.state = "END" /\ conv'.reply = "added"
       /\ ProbeAnswer = "TwoFactorRequired" => conv'.state = "SELECT_2FA_METHOD"
       /\ ProbeAnswer = "BadPassword" =>
            /\ conv'.reply = "not added"
            /\ Len(remote_calls') = 1]_vars

\* ---------------------------------------------------------------- C22
\* C22: a login answered with "too many attempts" gives a reply other than the one
\* for a wrong password or a wrong code, and no further login call is made for that
\* submission.
C22_ThrottlingSurfaced ==
  [][(remote_throttled /\ conv' # conv /\ remote_calls' # << >>) =>
       /\ conv'.reply # "not added"
       /\ Len(remote_calls') = 1]_vars

\* ---------------------------------------------------------------- C23
\* C23: a permanent error met while a client is fetched for a publication -- the
\* stored password rejected by the login -- is not retried: the login call is made
\* exactly once.
C23_PermanentErrorNotRetried ==
  \A c \in Callers :
    (gs[c].pc = "done" /\ gs[c].error = "BadPassword") => gs[c].logins = 1

\* ---------------------------------------------------------------- C25
\* C25: a stored secret that does not decrypt is reported by get_account_client as
\* something other than what it gives back for a failed remote login.
C25_CryptoErrorSurfaced ==
  \A c, d \in Callers :
    (/\ gs[c].pc = "done" /\ gs[c].error = "InvalidToken"
     /\ gs[d].pc = "done" /\ gs[d].error \in {"BadPassword", ConnectionError})
      => <<gs[c].raised, gs[c].value>> # <<gs[d].raised, gs[d].value>>

\* ---------------------------------------------------------------- C24
EncryptCalls == {i \in 1..Len(vault) : vault[i].op = "encrypt"}
DecryptCalls == {i \in 1..Len(vault) : vault[i].op = "decrypt"}

\* C24 as amended: under one passphrase decrypt gives back the plaintext of every
\* token encrypt returned.
C24_RoundTrip ==
  \A i \in EncryptCalls, j \in DecryptCalls :
    vault[j].token = vault[i].token => vault[j].data = vault[i].data

\* C24: under one passphrase decrypt(encrypt(p)) = p, and two encrypt calls on the
\* same plaintext return the same ciphertext.
C24_RoundTripAndDeterministic ==
  /\ C24_RoundTrip
  /\ \A i, k \in EncryptCalls :
       vault[i].data = vault[k].data => vault[i].token = vault[k].token

\* the same plaintext encrypted twice into different tokens, the later one decrypted
C24_Witness ==
  \E i, k \in EncryptCalls, j \in DecryptCalls :
    /\ i < k /\ k < j
    /\ vault[i].data = vault[k].data
    /\ vault[i].token # vault[k].token
    /\ vault[j].token = vault[k].token
    /\ vault[j].data = vault[k].data

\* ---------------------------------------------------------------- C26
\* every row of the accounts table holds a token made with the manager's key and no
\* password as typed; an entry of DataManager.accounts holds no password at all
NoPlaintextStored ==
  /\ \A h \in Handles :
       /\ acc_db[h].exists =>
            acc_db[h].encrypted_password.key = _get_key(encryption_password)
       /\ \A password \in Passwords : acc_db[h].encrypted_password # Raw(password)
  /\ \A h \in Handles :
       DOMAIN ib_accounts[h] = {"exists", "last_used", "verification_method"}

\* C26: no stored account record holds the plaintext password, the only stored form
\* of the secret being the output of encrypt, and an add-account that fails stores
\* nothing.
C26_NoPlaintextStored ==
  [][/\ NoPlaintextStored /\ NoPlaintextStored'
     /\ (conv' # conv /\ conv'.reply = "not added")
          => acc_db' = acc_db /\ ib_accounts' = ib_accounts]_vars

\* main.py has added acct2 at time 1 with the password typed in the conversation
C26_Witness ==
  /\ conv.reply = "added"
  /\ acc_db["acct2"].is_active
  /\ acc_db["acct2"].last_used = 1
  /\ decrypt(acc_db["acct2"].encrypted_password) = GoodPassword

\* ---------------------------------------------------------------- C27
\* C27: the scheduler calls publish_post/story/reel -- and with it the login and the
\* Publisher -- only for a publication that is queued and whose publish_time has
\* come.
C27_OnlyDueQueuedAttempted ==
  [][\A p \in PubIds :
       (publish_calls'[p] > publish_calls[p] \/ upload_calls'[p] > upload_calls[p])
         => /\ p <= Len(pub)
            /\ pub[p].status = "queued"
            /\ pub[p].publish_time <= now]_vars

\* a publication enqueued for time 1 was published at time 1
C27_Witness ==
  /\ Len(pub) = 1
  /\ pub[1].publish_time = 1
  /\ pub[1].status = "published"
  /\ pub[1].published_at = 1
  /\ publish_calls[1] = 1

\* the same of insta_bot.py's Scheduler: Publisher calls are made only for a queued
\* item whose publish_time has come
C27_IbOnlyDueQueuedAttempted ==
  [][/\ \A i \in PubIds :
          ib_calls'["post"][i] > ib_calls["post"][i]
            => i <= Len(ib_post_queue) /\ IbDue(ib_post_queue[i])
     /\ \A i \in PubIds :
          ib_calls'["story"][i] > ib_calls["story"][i]
            => i <= Len(ib_stories_queue) /\ IbDue(ib_stories_queue[i])]_vars

\* ---------------------------------------------------------------- C28
\* C28: a post is published with exactly one Publisher call, a single upload for one
\* media entry and one album upload for several, never one post per entry.
C28_OnePublisherCallPerPost ==
  \A i \in 1..Len(ib_post_queue) :
    ib_post_queue[i].status = "published" => ib_calls["post"][i] = 1

C30_MediaRefsValid ==
  \A p \in Pubs :
    /\ pub[p].n_media >= 1
    /\ pub[p].content_type = "reel" => pub[p].n_media = 1

\* ---------------------------------------------------------------- C31
\* C31: in the session and in the committed table alike, a publication carries an
\* error_message only while its status is failed: a queued or published one has none.
C31_ErrorOnlyWhenFailed ==
  /\ \A i \in 1..Len(pub) : pub[i].error_message # "" => pub[i].status = "failed"
  /\ \A i \in 1..Len(pub_db) :
       pub_db[i].error_message # "" => pub_db[i].status = "failed"

\* a publication whose uncommitted failure, message included, was rolled back
C31_Witness ==
  /\ Len(pub) = 1
  /\ publish_calls[1] > 0
  /\ n_rollbacks > 0
  /\ pub[1].status = "queued"
  /\ pub[1].error_message = ""

\* ---------------------------------------------------------------- C37
\* C37: retry(max_attempts = n, delay = d) calls the wrapped function at most n
\* times; the first normal return (False included) ends it and is its result; the
\* k-th raising call, k from 0 and k < n-1, is followed by a wait of d * 2^k; and
\* when all n calls raise, the n-th exception is raised on without a further wait.
C37_Retry ==
  /\ rt.calls <= rt.max_attempts
  /\ rt.calls = Len(rt.raises) + (IF rt.returned = "none" THEN 0 ELSE 1)
  /\ rt.returned # "none" => rt.pc = "returned" /\ rt.result = rt.returned
  /\ \A k \in 1..Len(rt.sleeps) : rt.sleeps[k] = rt.delay * (2 ^ (k - 1))
  /\ Len(rt.sleeps) = (IF rt.pc = "raised" THEN Len(rt.raises) - 1 ELSE Len(rt.raises))
  /\ rt.pc = "raised" =>
       /\ rt.calls = rt.max_attempts
       /\ rt.result = rt.raises[rt.max_attempts]

\* three attempts: two raised and were waited for, the third returned False
C37_Witness ==
  /\ rt.max_attempts = 3 /\ rt.delay = 2
  /\ rt.pc = "returned" /\ rt.result = "False"
  /\ rt.sleeps = <<2, 4>>

\* ---------------------------------------------------------------- C38
\* C38: once start_bot has started both threads, weekly_reports_scheduler is in its
\* loop and leaves it only after start_bot's shutdown has set scheduler_running to
\* False.
C38_ReportsLoopUntilShutdown ==
  reports_pc = "returned" => main_pc = "shutdown"

\* ---------------------------------------------------------------- C34
\* C34: the rollback of a failed add_account leaves every publication the scheduler
\* has set to failed or published in that status.
C34_RollbackKeepsSchedulerStatus ==
  [][n_rollbacks' # n_rollbacks =>
       \A p \in Pubs :
         pub[p].status \in {"failed", "published"} => pub'[p].status = pub[p].status]_vars

\* ---------------------------------------------------------------- C35
\* C35: a publication of main.py's queue has published_at set exactly when its
\* status is published.
C35_PublishedAtIffPublished ==
  \A p \in Pubs : pub[p].published_at # None <=> pub[p].status = "published"

\* ---------------------------------------------------------------- C36
\* C36: for each account and content type, the account's counter equals the number
\* of its publications of that type whose status is published.
C36_CountersMatchPublished ==
  \A h \in Handles, ct \in ContentTypes :
    CounterOf(acc[h], ct) =
      Cardinality({p \in Pubs : /\ pub[p].account_username = h
                                /\ pub[p].content_type = ct
                                /\ pub[p].status = "published"})

\* ---------------------------------------------------------------- C33
\* C33: while the scheduler thread keeps running, every queued item whose
\* publish_time has come reaches a terminal status, whether or not its target
\* account exists.
C33_DueEventuallyTerminal ==
  \A i \in PubIds :
    (i <= Len(ib_post_queue) /\ IbDue(ib_post_queue[i]))
      ~> (i <= Len(ib_post_queue) /\ ib_post_queue[i].status \in Terminal)

\* ---------------------------------------------------------------- C32
\* C32: no publication is uploaded successfully more than once: after the Publisher
\* calls it needs have returned, no later tick and no retry makes another one.
C32_UploadedAtMostOnce ==
  \A p \in Pubs : upload_ok[p] <= PlannedUploads(pub[p])
====
